---- MODULE Spec2Model ----
(***************************************************************************)
(* A model of the Minesweeper engine of src/minesweeper.py: the board      *)
(* generator, the reveal engine (single reveal, flood-fill, chord), the    *)
(* flag list, the history of plays and the derived game state.             *)
(*                                                                         *)
(* The lists of the program (flags, _revealed, _history, Play.positions)   *)
(* are sequences here, as in the code: _revealed may hold a coordinate     *)
(* more than once, and undo() removes the first occurrence of one.         *)
(***************************************************************************)
EXTENDS Integers, Sequences, FiniteSets, TLC

\* ------------------------------------------------------------------ bounds
\* size = (Height, Width), the constructor's first argument.
Height == 2
Width == 3
\* number_of_mines is drawn from 0..MaxMines at construction.
MaxMines == 2
\* The state-changing calls after construction (see Counted).
MaxMoves == 3
\* new() is called after fewer state-changing calls than this.
MaxNewMoves == 2

VARIABLES
    mines_nb,   \* self._mines_nb
    board,      \* self._board: a list of rows of values in -1..8
    flags,      \* self.flags: list of coordinates
    revealed,   \* self._revealed: list of coordinates
    history,    \* self._history: list of Play
    op,         \* the last public call: [name, pos], pos its coordinate
    ret,        \* what that call returned
    exc,        \* the exception that call raised, or "none"
    moves,      \* the state-changing calls since construction
    idle        \* TRUE when the last call changed no list of the game

vars == <<mines_nb, board, flags, revealed, history, op, ret, exc, moves, idle>>

\* ------------------------------------------------------------ small helpers
Range(s) == {s[i] : i \in 1..Len(s)}

InList(x, s) == \E i \in 1..Len(s) : s[i] = x

\* list.remove(x): drops the first occurrence of x (x is in s).
RECURSIVE ListRemove(_, _)
ListRemove(s, x) ==
    IF s = <<>> THEN <<>>
    ELSE IF Head(s) = x THEN Tail(s)
    ELSE <<Head(s)>> \o ListRemove(Tail(s), x)

\* ------------------------------------------------------------------- Play
\* Play(type, positions, bomb_exploded)
MkPlay(t, ps, b) == [type |-> t, positions |-> ps, bomb_exploded |-> b]

\* The values a call can return besides a Play: None and self.
RetNone == MkPlay("None", <<>>, FALSE)
RetSelf == MkPlay("Self", <<>>, FALSE)

\* initial_play = None
NonePos == <<>>

\* ---------------------------------------------------------------- positions
all_positions == {<<r, c>> : r \in 0..(Height - 1), c \in 0..(Width - 1)}

_is_inside(p) == 0 <= p[1] /\ p[1] < Height /\ 0 <= p[2] /\ p[2] < Width

\* chain(permutations(range(-1, 2, 1), 2), ((1, 1), (-1, -1)))
RelativePositions ==
    << <<-1, 0>>, <<-1, 1>>, <<0, -1>>, <<0, 1>>, <<1, -1>>, <<1, 0>>,
       <<1, 1>>, <<-1, -1>> >>

Shift(p, d) == <<p[1] + d[1], p[2] + d[2]>>

\* _get_adjacent: the in-bounds neighbours, in the order of RelativePositions.
RECURSIVE AdjacentFrom(_, _)
AdjacentFrom(p, i) ==
    IF i > Len(RelativePositions) THEN <<>>
    ELSE (IF _is_inside(Shift(p, RelativePositions[i]))
          THEN <<Shift(p, RelativePositions[i])>> ELSE <<>>)
         \o AdjacentFrom(p, i + 1)

_get_adjacent(p) == AdjacentFrom(p, 1)

\* board[x][y], with the lists of the program indexed from 0.
Cell(b, p) == b[p[1] + 1][p[2] + 1]

SetCell(b, p, v) == [b EXCEPT ![p[1] + 1][p[2] + 1] = v]

mines_positions(b) == {p \in all_positions : Cell(b, p) = -1}

\* ------------------------------------------------------------- _create_board
\* incr without the test that spares a mine.
incr_any(b, p) ==
    IF _is_inside(p) THEN SetCell(b, p, Cell(b, p) + 1) ELSE b

\* incr(x, y) of increment_around.
incr(b, p) ==
    IF _is_inside(p) /\ Cell(b, p) # -1
    THEN SetCell(b, p, Cell(b, p) + 1)
    ELSE b

RECURSIVE IncrFrom(_, _, _)
IncrFrom(b, p, i) ==
    IF i > Len(RelativePositions) THEN b
    ELSE IncrFrom(incr(b, Shift(p, RelativePositions[i])), p, i + 1)

\* An increment_around that misses the first of the eight cells.
increment_around_but_one(b, p) == IncrFrom(b, p, 2)

increment_around(b, p) == IncrFrom(b, p, 1)

\* for x, y in mines_pos: board[x][y] = -1; increment_around(x, y)
RECURSIVE PlaceMines(_, _)
PlaceMines(b, ms) ==
    IF ms = <<>> THEN b
    ELSE PlaceMines(increment_around(SetCell(b, Head(ms), -1), Head(ms)),
                    Tail(ms))

\* random.sample(list(positions_couples), k): any k distinct candidates, in
\* any order.
RECURSIVE Samples(_, _)
Samples(cands, k) ==
    IF k = 0 THEN {<<>>}
    ELSE UNION {{Append(s, c) : c \in cands \ Range(s)} :
                s \in Samples(cands, k - 1)}

\* A draw that does not set the first play's cell aside.
CandidatesAll(initial_play) == all_positions

Candidates(initial_play) == all_positions \ {initial_play}

_create_board(mines_pos) ==
    PlaceMines([r \in 1..Height |-> [c \in 1..Width |-> 0]], mines_pos)

\* -------------------------------------------------------------- game state
\* A state that takes the flags alone for a win.
state_flags_only(b, f, rev, h) ==
    IF Range(f) = mines_positions(b) THEN "WON"
    ELSE IF Len(h) > 0 /\ h[Len(h)].bomb_exploded THEN "LOST"
    ELSE "IN_PROGRESS"

state_of(b, f, rev, h) ==
    IF Range(f) = mines_positions(b)
       /\ Range(rev) = all_positions \ mines_positions(b)
    THEN "WON"
    ELSE IF Len(h) > 0 /\ h[Len(h)].bomb_exploded THEN "LOST"
    ELSE "IN_PROGRESS"

\* A game_over that holds after a loss only.
game_over_lost_only(b, f, rev, h) == state_of(b, f, rev, h) = "LOST"

game_over_of(b, f, rev, h) == state_of(b, f, rev, h) # "IN_PROGRESS"

state == state_of(board, flags, revealed, history)

game_over == game_over_of(board, flags, revealed, history)

\* ------------------------------------------------------------ _spread_empty
\* Returns [rev |-> the new _revealed, pos |-> the tuple returned].
\* SpreadFrom is the generator expression over the relative positions from the
\* i-th on: acc holds the coordinates yielded so far.
RECURSIVE _spread_empty(_, _, _), SpreadFrom(_, _, _, _, _)
\* A flood-fill that stops short of the numbered border.
_spread_empty_zero_only(b, rev, p) ==
    IF InList(p, rev) \/ ~_is_inside(p) \/ Cell(b, p) # 0
    THEN [rev |-> rev, pos |-> <<>>]
    ELSE SpreadFrom(b, Append(rev, p), p, 1, <<p>>)

_spread_empty(b, rev, p) ==
    IF InList(p, rev) \/ ~_is_inside(p) THEN [rev |-> rev, pos |-> <<>>]
    ELSE IF Cell(b, p) = 0
         THEN SpreadFrom(b, Append(rev, p), p, 1, <<p>>)
         ELSE [rev |-> Append(rev, p), pos |-> <<p>>]

SpreadFrom(b, rev, p, i, acc) ==
    IF i > Len(RelativePositions) THEN [rev |-> rev, pos |-> acc]
    ELSE LET a == _spread_empty(b, rev, Shift(p, RelativePositions[i]))
         IN  IF a.pos = <<>>
             THEN SpreadFrom(b, rev, p, i + 1, acc)
             ELSE SpreadFrom(b, a.rev, p, i + 1, acc \o a.pos)

\* ------------------------------------------------------- _play / _do_chord
\* _play returns [rev, hist: the new _revealed and _history, play: the Play
\* returned (RetNone when it raised), exc: the exception raised or "none"].
\* _do_chord returns [rev, play]; ChordFrom is its loop over the neighbours,
\* from the i-th on, with l_positions and bomb_exploded as accumulated so far.
RECURSIVE _play(_, _, _, _, _, _), _do_chord(_, _, _, _, _),
          ChordFrom(_, _, _, _, _, _, _, _)
_play(b, f, rev, h, p, from_chord) ==
    IF game_over_of(b, f, rev, h)
    THEN IF from_chord
         THEN [rev |-> rev, hist |-> h, exc |-> "none",
               play |-> MkPlay("NOTHING", <<p>>, FALSE)]
         ELSE [rev |-> rev, hist |-> h, exc |-> "GameOver", play |-> RetNone]
    ELSE IF ~_is_inside(p)
    THEN [rev |-> rev, hist |-> h, exc |-> "ValueError", play |-> RetNone]
    ELSE IF InList(p, f)
    THEN [rev |-> rev, hist |-> h, exc |-> "none",
          play |-> MkPlay("NOTHING", <<p>>, FALSE)]
    ELSE LET r == IF InList(p, rev) /\ ~from_chord
                  THEN _do_chord(b, f, rev, h, p)
                  ELSE IF p \in mines_positions(b)
                  THEN [rev |-> Append(rev, p),
                        play |-> MkPlay("POSITION_REVEALED", <<p>>, TRUE)]
                  ELSE IF Cell(b, p) = 0
                  THEN LET s == _spread_empty(b, rev, p)
                       IN  [rev |-> s.rev,
                            play |-> MkPlay("SPREADING", s.pos, FALSE)]
                  ELSE [rev |-> Append(rev, p),
                        play |-> MkPlay("POSITION_REVEALED", <<p>>, FALSE)]
         IN  [rev |-> r.rev, exc |-> "none", play |-> r.play,
              hist |-> IF from_chord THEN h ELSE Append(h, r.play)]

\* A chord loop that keeps the last neighbour's bomb_exploded only.
ChordFromLastBomb(b, f, rev, h, adj, i, l_positions, bomb_exploded) ==
    IF i > Len(adj)
    THEN [rev |-> rev, pos |-> l_positions, bomb |-> bomb_exploded]
    ELSE LET r == _play(b, f, rev, h, adj[i], TRUE)
         IN  ChordFrom(b, f, r.rev, h, adj, i + 1,
                       IF r.play.type # "NOTHING"
                       THEN l_positions \o r.play.positions
                       ELSE l_positions,
                       r.play.bomb_exploded)

ChordFrom(b, f, rev, h, adj, i, l_positions, bomb_exploded) ==
    IF i > Len(adj)
    THEN [rev |-> rev, pos |-> l_positions, bomb |-> bomb_exploded]
    ELSE LET r == _play(b, f, rev, h, adj[i], TRUE)
         IN  ChordFrom(b, f, r.rev, h, adj, i + 1,
                       IF r.play.type # "NOTHING"
                       THEN l_positions \o r.play.positions
                       ELSE l_positions,
                       bomb_exploded \/ r.play.bomb_exploded)

_do_chord(b, f, rev, h, p) ==
    LET value == Cell(b, p)
        adj == _get_adjacent(p)
        flagged == Cardinality({i \in 1..Len(adj) : InList(adj[i], f)})
    IN  IF value > 0 /\ value = flagged
        THEN LET c == ChordFrom(b, f, rev, h, adj, 1, <<>>, FALSE)
             IN  [rev |-> c.rev, play |-> MkPlay("CHORD", c.pos, c.bomb)]
        ELSE [rev |-> rev, play |-> MkPlay("NOTHING", <<p>>, FALSE)]

\* A play that does not look at the flags.
play_ignoring_flags(b, f, rev, h, p) ==
    LET r == _play(b, <<>>, rev, h, p, FALSE)
    IN  [rev |-> r.rev, hist |-> r.hist, exc |-> r.exc, ret |-> RetNone]

\* The public play(): calls _play and returns nothing.
play(b, f, rev, h, p) ==
    LET r == _play(b, f, rev, h, p, FALSE)
    IN  [rev |-> r.rev, hist |-> r.hist, exc |-> r.exc, ret |-> RetNone]

\* -------------------------------------------------------------- toggle_flag
toggle_flag(f, h, p) ==
    IF ~_is_inside(p)
    THEN [flags |-> f, hist |-> h, exc |-> "ValueError", play |-> RetNone]
    ELSE LET r == IF InList(p, f)
                  THEN [flags |-> ListRemove(f, p),
                        play |-> MkPlay("FLAG_REMOVED", <<p>>, FALSE)]
                  ELSE [flags |-> Append(f, p),
                        play |-> MkPlay("FLAG_REMOVED", <<p>>, FALSE)]
         IN  [flags |-> r.flags, hist |-> Append(h, r.play), exc |-> "none",
              play |-> r.play]

\* --------------------------------------------------------------------- undo
\* self._history.pop() and self._revealed.remove(last_play.positions[0]),
\* each of which may raise after the steps before it have taken effect.
undo(b, f, rev, h) ==
    IF ~game_over_of(b, f, rev, h)
    THEN [rev |-> rev, hist |-> h, exc |-> "none"]
    ELSE IF h = <<>>
    THEN [rev |-> rev, hist |-> h, exc |-> "IndexError"]
    ELSE LET last_play == h[Len(h)]
             popped == SubSeq(h, 1, Len(h) - 1)
         IN  IF last_play.positions = <<>>
             THEN [rev |-> rev, hist |-> popped, exc |-> "IndexError"]
             ELSE IF ~InList(last_play.positions[1], rev)
             THEN [rev |-> rev, hist |-> popped, exc |-> "ValueError"]
             ELSE [rev |-> ListRemove(rev, last_play.positions[1]),
                   hist |-> popped, exc |-> "none"]

\* ------------------------------------------------------------------- inputs
\* The coordinates a caller passes: every cell, and a cell beyond the first
\* row and one beyond the last column.
OutOfBounds == {<<-1, 0>>, <<0, Width>>}

Coords == all_positions \cup OutOfBounds

InitialPlays == all_positions \cup {NonePos}

\* ------------------------------------------------------------------ actions
\* moves counts the calls since construction that change flags, _revealed
\* or _history, and every restart() and new(); calls are taken while
\* moves < MaxMoves, and new() while moves < MaxNewMoves.
\* A call that changes none of the lists (it raised, or did nothing) leaves
\* the game where it was: the state it gives records the call in op, ret and
\* exc, which no call reads, and is marked idle. The calls that can follow it
\* are those that can follow the state before it, and are taken from there.
Idle(f, rev, h) == <<f, rev, h>> = <<flags, revealed, history>>

Counted(f, rev, h) == IF Idle(f, rev, h) THEN moves ELSE moves + 1

CanCall == ~idle /\ moves < MaxMoves

\* new(initial_play), with mines_pos the sample the random source returns:
\* the lists are emptied, the board is created, and initial_play is played
\* on the new board.
new(initial_play, mines_pos) ==
    \E b \in {_create_board(mines_pos)} :
        /\ board' = b
        /\ flags' = <<>>
        /\ \E r \in {IF initial_play # NonePos
                    THEN _play(b, <<>>, <<>>, <<>>, initial_play, FALSE)
                    ELSE [rev |-> <<>>, hist |-> <<>>, exc |-> "none"]} :
               /\ revealed' = r.rev
               /\ history' = r.hist
               /\ exc' = r.exc
               /\ ret' = IF r.exc = "none" THEN RetSelf ELSE RetNone

\* Minesweeper(size, number_of_mines, initial_play, random_seed): sets
\* _mines_nb and calls new(initial_play).
InitWith(max_mines) ==
    \E n \in 0..max_mines, ip \in InitialPlays :
        \E ms \in Samples(Candidates(ip), n) : \E b \in {_create_board(ms)} :
            /\ mines_nb = n
            /\ board = b
            /\ flags = <<>>
            /\ \E r \in {IF ip # NonePos
                        THEN _play(b, <<>>, <<>>, <<>>, ip, FALSE)
                        ELSE [rev |-> <<>>, hist |-> <<>>, exc |-> "none"]} :
                   /\ revealed = r.rev
                   /\ history = r.hist
                   /\ exc = r.exc
            /\ ret = RetSelf
            /\ op = [name |-> "__init__", pos |-> ip]
            /\ moves = 0
            /\ idle = FALSE

Init == InitWith(MaxMines)

Play(p) ==
    /\ CanCall
    /\ \E r \in {play(board, flags, revealed, history, p)} :
           /\ revealed' = r.rev
           /\ history' = r.hist
           /\ ret' = r.ret
           /\ exc' = r.exc
           /\ moves' = Counted(flags, r.rev, r.hist)
           /\ idle' = Idle(flags, r.rev, r.hist)
    /\ op' = [name |-> "play", pos |-> p]
    /\ UNCHANGED <<mines_nb, board, flags>>

ToggleFlag(p) ==
    /\ CanCall
    /\ \E r \in {toggle_flag(flags, history, p)} :
           /\ flags' = r.flags
           /\ history' = r.hist
           /\ ret' = r.play
           /\ exc' = r.exc
           /\ moves' = Counted(r.flags, revealed, r.hist)
           /\ idle' = Idle(r.flags, revealed, r.hist)
    /\ op' = [name |-> "toggle_flag", pos |-> p]
    /\ UNCHANGED <<mines_nb, board, revealed>>

Undo ==
    /\ CanCall
    /\ \E r \in {undo(board, flags, revealed, history)} :
           /\ revealed' = r.rev
           /\ history' = r.hist
           /\ exc' = r.exc
           /\ moves' = Counted(flags, r.rev, r.hist)
           /\ idle' = Idle(flags, r.rev, r.hist)
    /\ ret' = RetNone
    /\ op' = [name |-> "undo", pos |-> NonePos]
    /\ UNCHANGED <<mines_nb, board, flags>>

\* A restart that keeps the flags.
RestartKeepingFlags ==
    /\ CanCall
    /\ revealed' = <<>>
    /\ history' = <<>>
    /\ ret' = RetSelf
    /\ exc' = "none"
    /\ op' = [name |-> "restart", pos |-> NonePos]
    /\ moves' = moves + 1
    /\ idle' = FALSE
    /\ UNCHANGED <<mines_nb, board, flags>>

Restart ==
    /\ CanCall
    /\ revealed' = <<>>
    /\ history' = <<>>
    /\ flags' = <<>>
    /\ ret' = RetSelf
    /\ exc' = "none"
    /\ op' = [name |-> "restart", pos |-> NonePos]
    /\ moves' = moves + 1
    /\ idle' = FALSE
    /\ UNCHANGED <<mines_nb, board>>

New(ip) ==
    /\ CanCall /\ moves < MaxNewMoves
    /\ \E ms \in Samples(Candidates(ip), mines_nb) : new(ip, ms)
    /\ op' = [name |-> "new", pos |-> ip]
    /\ moves' = moves + 1
    /\ idle' = FALSE
    /\ UNCHANGED mines_nb

Next ==
    \/ \E p \in Coords : Play(p)
    \/ \E p \in Coords : ToggleFlag(p)
    \/ Undo
    \/ Restart
    \/ \E ip \in InitialPlays : New(ip)

Spec == Init /\ [][Next]_vars

\* ------------------------------------------------------------------ claims
\* What the claims speak of, stated apart from the operators above.
Mines == {p \in all_positions : Cell(board, p) = -1}

FlagSet == Range(flags)

RevealedSet == Range(revealed)

Abs(n) == IF n < 0 THEN -n ELSE n

\* The cells a king's move away from p.
Neighbours(p) ==
    {q \in all_positions :
        q # p /\ Abs(q[1] - p[1]) <= 1 /\ Abs(q[2] - p[2]) <= 1}

LastPlay(h) == h[Len(h)]

\* How many entries of the list s are x.
Occurs(s, x) == Cardinality({i \in 1..Len(s) : s[i] = x})

Lists == <<board, flags, revealed, history>>

C2_PlayWhenOverRaises ==
    [][(op'.name = "play" /\ state \in {"WON", "LOST"})
          => (exc' = "GameOver" /\ UNCHANGED Lists)]_vars

\* A play refused on a game that was won.
C2_Witness ==
    op.name = "play" /\ exc = "GameOver" /\ state = "WON" /\ mines_nb > 0

\* C3: undo() in state IN_PROGRESS or WON raises nothing and leaves the board,
\* the flags, the revealed cells and the history unchanged.
C3_UndoNoOpUnlessLost ==
    [][(op'.name = "undo" /\ state \in {"IN_PROGRESS", "WON"})
          => (exc' = "none" /\ UNCHANGED Lists)]_vars

\* C4: undo() in state LOST removes exactly the last record of the history,
\* leaves one revealed cell fewer, and leaves the game IN_PROGRESS.
C4_UndoAfterLoss ==
    [][(op'.name = "undo" /\ state = "LOST")
          => /\ history' = SubSeq(history, 1, Len(history) - 1)
             /\ Cardinality(Range(revealed')) = Cardinality(RevealedSet) - 1
             /\ state' = "IN_PROGRESS"]_vars

\* C5: toggle_flag on an in-bounds coordinate toggles its membership in the
\* flags and changes no other flag, no revealed cell and no board cell; the
\* one record it appends and returns is FLAG_ADDED when the coordinate was
\* not flagged, FLAG_REMOVED when it was.
C5_ToggleFlagRecord ==
    [][(op'.name = "toggle_flag" /\ _is_inside(op'.pos))
          => /\ exc' = "none"
             /\ Range(flags') = IF op'.pos \in FlagSet
                                THEN FlagSet \ {op'.pos}
                                ELSE FlagSet \cup {op'.pos}
             /\ UNCHANGED <<board, revealed>>
             /\ history' = Append(history, ret')
             /\ ret'.positions = <<op'.pos>>
             /\ ret'.type = IF op'.pos \in FlagSet
                            THEN "FLAG_REMOVED" ELSE "FLAG_ADDED"]_vars

\* C6: a play that does not fail returns the Play describing what it did.
C6_PlayReturnsRecord ==
    [][(op'.name = "play" /\ exc' = "none")
          => ret' = _play(board, flags, revealed, history, op'.pos, FALSE).play
       ]_vars

\* C7: a play, in a game in progress, on a revealed unflagged cell of value v:
\* when v > 0 and v neighbours are flagged, every neighbour neither flagged
\* nor revealed becomes revealed and the one record appended, a CHORD, lists
\* only coordinates that were not revealed before; otherwise the revealed
\* cells and the flags stay as they were.
C7_Chord ==
    [][(/\ op'.name = "play"
        /\ state = "IN_PROGRESS"
        /\ op'.pos \in RevealedSet
        /\ op'.pos \notin FlagSet)
          => IF /\ Cell(board, op'.pos) > 0
                /\ Cell(board, op'.pos)
                       = Cardinality(Neighbours(op'.pos) \cap FlagSet)
             THEN /\ \A q \in Neighbours(op'.pos) \ (FlagSet \cup RevealedSet) :
                         q \in Range(revealed')
                  /\ history' # <<>>
                  /\ SubSeq(history', 1, Len(history') - 1) = history
                  /\ LastPlay(history').type = "CHORD"
                  /\ Range(LastPlay(history').positions) \cap RevealedSet = {}
             ELSE UNCHANGED <<revealed, flags>>]_vars

\* The zero-valued cells joined to p by king's moves through zero-valued
\* cells, as a least fixed point.
RECURSIVE Grow(_)
Grow(S) ==
    LET T == S \cup {q \in all_positions :
                        Cell(board, q) = 0 /\ Neighbours(q) \cap S # {}}
    IN  IF T = S THEN S ELSE Grow(T)

ZeroRegion(p) == Grow({p})

RegionAndBorder(p) ==
    ZeroRegion(p) \cup UNION {Neighbours(q) : q \in ZeroRegion(p)}

\* C8: a play, in a game in progress, on an unrevealed unflagged cell of
\* value 0 adds to the revealed cells exactly the cells of its 8-connected
\* zero region and of that region's border that were not revealed before,
\* and the SPREADING record it appends lists each of them exactly once.
C8_FloodFill ==
    [][(/\ op'.name = "play"
        /\ state = "IN_PROGRESS"
        /\ _is_inside(op'.pos)
        /\ op'.pos \notin RevealedSet
        /\ op'.pos \notin FlagSet
        /\ Cell(board, op'.pos) = 0)
          => LET added == RegionAndBorder(op'.pos) \ RevealedSet
             IN  /\ history' # <<>>
                 /\ SubSeq(history', 1, Len(history') - 1) = history
                 /\ LastPlay(history').type = "SPREADING"
                 /\ Range(LastPlay(history').positions) = added
                 /\ Len(LastPlay(history').positions) = Cardinality(added)
                 /\ revealed' = revealed \o LastPlay(history').positions
                 /\ Range(revealed') = RevealedSet \cup added]_vars

\* A flood-fill that met cells revealed before it, revealed several cells and
\* stopped at a numbered border short of the whole board.
C8_Witness ==
    /\ op.name = "play"
    /\ history # <<>>
    /\ LastPlay(history).type = "SPREADING"
    /\ Len(LastPlay(history).positions) >= 2
    /\ Len(revealed) > Len(LastPlay(history).positions)
    /\ RevealedSet \cup Mines # all_positions
    /\ \E q \in Range(LastPlay(history).positions) : Cell(board, q) > 0

\* C9: the board holds exactly mines_nb mines, and every other cell holds the
\* number of mines among its neighbours.
C9_BoardValues ==
    /\ Cardinality(Mines) = mines_nb
    /\ \A p \in all_positions \ Mines :
           Cell(board, p) = Cardinality(Neighbours(p) \cap Mines)

\* A regenerated board with two mines side by side.
C9_Witness ==
    /\ op.name = "new"
    /\ mines_nb = 2
    /\ \E p \in Mines : Neighbours(p) \cap Mines # {}

\* C10: right after a construction or a new game given a safe cell, that cell
\* is not a mine and is revealed, the history is the one record of that first
\* play, no cell is flagged and the game is not lost.
C10_SafeCell ==
    (op.name \in {"__init__", "new"} /\ op.pos # NonePos)
        => /\ exc = "none"
           /\ Cell(board, op.pos) # -1
           /\ op.pos \in RevealedSet
           /\ Len(history) = 1
           /\ history[1].type \in {"SPREADING", "POSITION_REVEALED"}
           /\ InList(op.pos, history[1].positions)
           /\ ~history[1].bomb_exploded
           /\ flags = <<>>
           /\ state # "LOST"

\* A new game with a safe cell next to a mine, asked for after an earlier
\* move, on a board with two mines.
C10_Witness ==
    /\ op.name = "new"
    /\ op.pos # NonePos
    /\ mines_nb = 2
    /\ moves = 2
    /\ Cell(board, op.pos) > 0

\* C11: restart(), in any state, empties the flags, the revealed cells and
\* the history and leaves every cell of the board as it was; on a board with
\* a cell that is not a mine the state is then IN_PROGRESS.
C11_Restart ==
    [][op'.name = "restart"
          => /\ exc' = "none"
             /\ flags' = <<>>
             /\ revealed' = <<>>
             /\ history' = <<>>
             /\ board' = board
             /\ (Mines # all_positions => state' = "IN_PROGRESS")]_vars

\* A restart after two calls that changed the game, on a board with mines.
C11_Witness ==
    /\ op.name = "restart"
    /\ moves = 3
    /\ mines_nb > 0
    /\ flags = <<>> /\ revealed = <<>> /\ history = <<>>

\* C12: when every cell that is not a mine is revealed and no mine is
\* revealed, the game is over even though one of the mines is not flagged.
C12_WinWithoutAllFlags ==
    (/\ RevealedSet = all_positions \ Mines
     /\ FlagSet \subseteq Mines
     /\ Cardinality(Mines \ FlagSet) = 1)
        => game_over

\* C13: undo() after a loss takes out of the revealed cells the mine whose
\* reveal caused the loss, also when a chord caused it: afterwards no mine of
\* the losing record is revealed, and every cell that is not a mine and was
\* revealed before is still revealed.
C13_UndoRemovesMine ==
    [][(op'.name = "undo" /\ state = "LOST")
          => /\ exc' = "none"
             /\ \A m \in Range(LastPlay(history).positions) \cap Mines :
                    m \notin Range(revealed')
             /\ RevealedSet \ Mines \subseteq Range(revealed')]_vars

\* C14: every play that raises nothing makes the history one record longer,
\* a chord included, whatever the number of neighbours it reveals.
C14_PlayAppendsOnce ==
    [][(op'.name = "play" /\ exc' = "none")
          => Len(history') = Len(history) + 1]_vars

\* C15: while the game is in progress, a play on a flagged cell of the board
\* raises nothing and leaves the board, the flags and the revealed cells as
\* they were.
C15_PlayOnFlagged ==
    [][(/\ op'.name = "play"
        /\ state = "IN_PROGRESS"
        /\ op'.pos \in FlagSet)
          => (exc' = "none" /\ UNCHANGED <<board, flags, revealed>>)]_vars

\* A play on a flagged, unrevealed mine in a game in progress.
C15_Witness ==
    /\ op.name = "play"
    /\ exc = "none"
    /\ state = "IN_PROGRESS"
    /\ op.pos \in FlagSet
    /\ op.pos \in Mines
    /\ op.pos \notin RevealedSet
    /\ revealed # <<>>

\* C16: a play that spreads from a zero-valued cell, directly or inside a
\* chord, reveals no cell that was flagged and not revealed before it.
C16_FloodFillSkipsFlags ==
    [][(/\ op'.name = "play"
        /\ exc' = "none"
        /\ Len(history') = Len(history) + 1
        /\ LastPlay(history').type \in {"SPREADING", "CHORD"})
          => (FlagSet \ RevealedSet) \cap Range(revealed') = {}]_vars

\* The mines next to p that carry no flag.
UnflaggedMinesAround(p) == (Neighbours(p) \cap Mines) \ FlagSet

C18_RevealedMineIsLost ==
    RevealedSet \cap Mines # {} => state = "LOST"

\* C19: in every reachable state the revealed cells hold each coordinate at
\* most once.
C19_RevealedIsSet ==
    \A p \in all_positions : Occurs(revealed, p) <= 1

\* C20, of the records: a SPREADING record lists no mine and has
\* bomb_exploded false, and a record with bomb_exploded true is a CHORD or the
\* POSITION_REVEALED of one mine.
SpreadingRecordsAreSafe ==
    \A i \in 1..Len(history) :
        /\ history[i].type = "SPREADING"
               => /\ ~history[i].bomb_exploded
                  /\ Range(history[i].positions) \cap Mines = {}
        /\ history[i].bomb_exploded
               => \/ history[i].type = "CHORD"
                  \/ /\ history[i].type = "POSITION_REVEALED"
                     /\ Len(history[i].positions) = 1
                     /\ history[i].positions[1] \in Mines

\* C20, of the calls: a play that appends a SPREADING record reveals no mine;
\* a play that reveals a mine is a play on that mine or a chord on a cell
\* next to it.
SpreadingStepIsSafe ==
    (op'.name = "play" /\ exc' = "none")
        => LET mined == (Range(revealed') \cap Mines) \ RevealedSet
           IN  /\ (Len(history') = Len(history) + 1
                     /\ LastPlay(history').type = "SPREADING")
                       => mined = {}
               /\ mined # {}
                       => \/ mined = {op'.pos}
                          \/ /\ LastPlay(history').type = "CHORD"
                             /\ mined \subseteq Neighbours(op'.pos)

\* C20: flood-fill never uncovers a mine: on every generated board a play that
\* spreads from a zero-valued cell adds no mine to the revealed cells, every
\* SPREADING record has bomb_exploded false, and a loss comes only from a
\* play on a mine or from a chord.
C20_FloodFillSparesMines ==
    []SpreadingRecordsAreSafe /\ [][SpreadingStepIsSafe]_vars

\* A flood-fill on a board with two mines that stopped at cells next to a
\* mine.
C20_Witness ==
    /\ op.name = "play"
    /\ mines_nb = 2
    /\ history # <<>>
    /\ LastPlay(history).type = "SPREADING"
    /\ \E q \in Range(LastPlay(history).positions) :
           Neighbours(q) \cap Mines # {}

====
